---- MODULE Spec2Model ----
(***************************************************************************)
(* AgroNexus backend (src/backend/main.py): the request handlers of the    *)
(* marketplace API over the tables users, products, carts, cart_items,     *)
(* orders and order_items of the data store.                               *)
(*                                                                         *)
(* A table is a sequence of rows in insertion order; a row is a record of  *)
(* the columns the handlers read or write.  Each handler is one action:    *)
(* the whole request, every store call it makes included.  The variable    *)
(* resp holds the last request and its HTTP response.  Where requests are  *)
(* served concurrently a handler is taken one store call at a time, and    *)
(* the variable calls holds the requests in flight between two store       *)
(* calls, each with the locals of its handler.                             *)
(***************************************************************************)
EXTENDS Integers, Sequences, FiniteSets, TLC

VARIABLES users, tokens, now, products, product_seq, carts, cart_items,
          orders, order_items, resp, calls

vars == <<users, tokens, now, products, product_seq, carts, cart_items,
          orders, order_items, resp, calls>>

\* the rows of the store
tables == <<users, products, carts, cart_items, orders, order_items>>

\* the tables the shop handlers write, with the product id sequence
shop == <<products, product_seq, carts, cart_items, orders, order_items>>

(***************************************************************************)
(* Bounds of the model.                                                    *)
(***************************************************************************)
MaxUsers == 2
MaxTokens == 2
MaxTime == 8
MaxProducts == 3
MaxRows == 26
MaxPage == 2
MaxCarts == 1
MaxCartItems == 2
MaxOrders == 2
MaxCalls == 2
MaxRaceCarts == 2

(***************************************************************************)
(* Program constants.                                                      *)
(***************************************************************************)
TOKEN_DAYS == 7
LIMIT_MAX == 100

SECRET_KEY == "your-secret-key-here-change-in-production"
PASSWORD_SALT == "agronexus-salt-2024-change-in-production"

(***************************************************************************)
(* Request inputs.                                                         *)
(***************************************************************************)
Usernames == {"ann", "bob"}
Emails == {"a@x", "b@x"}
Passwords == {"", "pw"}
\* user_type: str, any string a client sends
UserTypes == {"farmer", "buyer", "admin", "guest"}

Prices == {2, 3}
Stock == {3}
CartQtys == {1, 2}

NoUser == [id |-> 0]
NoBody == [none |-> TRUE]

\* the slots of the requests in flight, none taken
Idle == [pc |-> "idle"]
NoCalls == [c \in 1..MaxCalls |-> Idle]

(***************************************************************************)
(* The store client: select / insert / update / delete with eq filters.    *)
(***************************************************************************)
SelectEq(table, col, val) == SelectSeq(table, LAMBDA r : r[col] = val)

Insert(table, row) == Append(table, row)

\* an insert that overwrites the price of the stored rows of the same
\* product, as an upsert on product_id would
InsertManyRepricing(table, rows) ==
    [i \in DOMAIN table |->
        IF \E j \in DOMAIN rows : rows[j].product_id = table[i].product_id
        THEN [table[i] EXCEPT !.price =
                 rows[CHOOSE j \in DOMAIN rows :
                          rows[j].product_id = table[i].product_id].price]
        ELSE table[i]] \o rows

\* insert(rows) with a list of rows
InsertMany(table, rows) == table \o rows

Patch(row, patch) ==
    [k \in DOMAIN row |-> IF k \in DOMAIN patch THEN patch[k] ELSE row[k]]

UpdateEq(table, col, val, patch) ==
    [i \in DOMAIN table |->
        IF table[i][col] = val THEN Patch(table[i], patch) ELSE table[i]]

DeleteEq(table, col, val) == SelectSeq(table, LAMBDA r : r[col] # val)

SelectEq2(table, c1, v1, c2, v2) ==
    SelectSeq(table, LAMBDA r : r[c1] = v1 /\ r[c2] = v2)

DeleteEq2(table, c1, v1, c2, v2) ==
    SelectSeq(table, LAMBDA r : ~(r[c1] = v1 /\ r[c2] = v2))

\* an upsert without the conflict target: every call inserts
UpsertAlwaysInserts(table, row, c1, c2) == Append(table, row)

\* upsert(row, on_conflict='c1,c2'): the row in conflict is overwritten in
\* place, and the row is inserted when none is
Upsert(table, row, c1, c2) ==
    IF \E i \in DOMAIN table : table[i][c1] = row[c1] /\ table[i][c2] = row[c2]
    THEN [i \in DOMAIN table |->
             IF table[i][c1] = row[c1] /\ table[i][c2] = row[c2]
             THEN row ELSE table[i]]
    ELSE Append(table, row)

RECURSIVE SumSeq(_)
SumSeq(s) == IF s = <<>> THEN 0 ELSE s[1] + SumSeq(Tail(s))

(***************************************************************************)
(* Credentials.                                                            *)
(***************************************************************************)
\* sha256 of password + salt + secret, kept as the triple that determines it
get_password_hash(password) == <<password, PASSWORD_SALT, SECRET_KEY>>

\* a comparison that accepts every password
verify_password_any(plain_password, hashed_password) == TRUE

verify_password(plain_password, hashed_password) ==
    get_password_hash(plain_password) = hashed_password

\* a token whose expiry is the time of issue: the timedelta is left out
create_access_token_no_ttl(data, t) ==
    [sub |-> data.sub, email |-> data.email, user_type |-> data.user_type,
     exp |-> t, key |-> SECRET_KEY]

create_access_token(data, t) ==
    [sub |-> data.sub, email |-> data.email, user_type |-> data.user_type,
     exp |-> t + TOKEN_DAYS, key |-> SECRET_KEY]

\* what a client can put in the Authorization header: a token it was
\* issued, or such a token altered and so no longer signed by SECRET_KEY
Forged(tk) == [tk EXCEPT !.key = "forged"]

Presentable ==
    IF tokens = {} THEN {}
    ELSE tokens \cup {Forged(CHOOSE tk \in tokens : TRUE)}

\* jwt.decode's expiry check at time t: the token is expired after exp and
\* valid before it; at the instant exp itself the outcome depends on the
\* installed library version
ExpiryOutcomes(tk, t) ==
    IF t > tk.exp THEN {TRUE}
    ELSE IF t < tk.exp THEN {FALSE}
    ELSE {TRUE, FALSE}

\* the user row a request is attributed to, NoUser for a 401
get_current_user(tk, expired) ==
    IF tk.key # SECRET_KEY \/ expired THEN NoUser
    ELSE IF tk.sub = 0 THEN NoUser
    ELSE LET rows == SelectEq(users, "id", tk.sub)
         IN  IF Len(rows) = 0 THEN NoUser ELSE rows[1]

\* del user['password_hash'] and the added full_name
PublicUser(user) ==
    [k \in (DOMAIN user \ {"password_hash"}) \cup {"full_name"} |->
        IF k = "full_name" THEN user.username ELSE user[k]]

Response(op, status, caller, args, body) ==
    [op |-> op, status |-> status, caller |-> caller, args |-> args,
     body |-> body]

\* the 401 of the get_current_user dependency: the handler body never runs
Unauthorized(op) == Response(op, 401, 0, NoBody, NoBody)

(***************************************************************************)
(* Auth endpoints.                                                         *)
(***************************************************************************)
\* a registration that skips the email lookup
EmailNeverTaken(email) == FALSE

\* the point lookups register makes before it inserts
EmailTaken(email) == Len(SelectEq(users, "email", email)) > 0

\* a registration that skips the username lookup
UsernameNeverTaken(username) == FALSE

UsernameTaken(username) == Len(SelectEq(users, "username", username)) > 0

register_user(username, email, password, user_type) ==
    LET args == [username |-> username, email |-> email]
        user_obj == [id |-> Len(users) + 1,
                     username |-> username,
                     email |-> email,
                     password_hash |-> get_password_hash(password),
                     user_type |-> user_type]
        token == create_access_token(
                     [sub |-> user_obj.id, email |-> user_obj.email,
                      user_type |-> user_obj.user_type], now)
    IN  /\ IF EmailTaken(email)
           THEN /\ resp' = Response("register", 400, 0, args, NoBody)
                /\ UNCHANGED <<users, tokens>>
           ELSE IF UsernameTaken(username)
           THEN /\ resp' = Response("register", 400, 0, args, NoBody)
                /\ UNCHANGED <<users, tokens>>
           ELSE /\ Len(users) < MaxUsers
                /\ Cardinality(tokens \cup {token}) <= MaxTokens
                /\ users' = Insert(users, user_obj)
                /\ tokens' = tokens \cup {token}
                /\ resp' = Response("register", 200, 0, args,
                                    [user |-> PublicUser(user_obj),
                                     token |-> token])
        /\ UNCHANGED <<calls, now, shop>>

login_user(email, password) ==
    LET args == [email |-> email, password |-> password]
        response == SelectEq(users, "email", email)
        row == response[1]
        backfill == "password_hash" \notin DOMAIN row
        hashed_password == get_password_hash(password)
        user == IF backfill
                THEN [k \in DOMAIN row \cup {"password_hash"} |->
                         IF k = "password_hash" THEN hashed_password
                         ELSE row[k]]
                ELSE row
        stored == IF backfill
                  THEN UpdateEq(users, "id", row.id,
                                [password_hash |-> hashed_password])
                  ELSE users
        token == create_access_token(
                     [sub |-> user.id, email |-> user.email,
                      user_type |-> user.user_type], now)
    IN  /\ IF Len(response) = 0
           THEN /\ resp' = Response("login", 401, 0, args, NoBody)
                /\ UNCHANGED <<users, tokens>>
           ELSE IF ~verify_password(password, user.password_hash)
           THEN /\ resp' = Response("login", 401, 0, args, NoBody)
                /\ users' = stored
                /\ UNCHANGED tokens
           ELSE /\ Cardinality(tokens \cup {token}) <= MaxTokens
                /\ users' = stored
                /\ tokens' = tokens \cup {token}
                /\ resp' = Response("login", 200, 0, args,
                                    [user |-> PublicUser(user),
                                     token |-> token])
        /\ UNCHANGED <<calls, now, shop>>

get_current_user_profile(tk, expired) ==
    LET current_user == get_current_user(tk, expired)
        args == [token |-> tk]
    IN  /\ IF current_user = NoUser
           THEN resp' = Response("me", 401, 0, args, NoBody)
           ELSE resp' = Response("me", 200, current_user.id, args,
                                 [user |-> PublicUser(current_user)])
        /\ UNCHANGED <<calls, users, tokens, now, shop>>

(***************************************************************************)
(* User management.                                                        *)
(***************************************************************************)
get_user_profile(user_id) ==
    LET args == [user_id |-> user_id]
        response == SelectEq(users, "id", user_id)
    IN  /\ IF Len(response) = 0
           THEN resp' = Response("get_user_profile", 404, 0, args, NoBody)
           ELSE resp' = Response("get_user_profile", 200, 0, args,
                                 [user |-> PublicUser(response[1])])
        /\ UNCHANGED <<calls, users, tokens, now, shop>>

\* update_data.dict(exclude_unset=True): the fields the request sets
UserPatches == {<<>>} \cup {[username |-> n] : n \in Usernames}

\* an authorization test that lets every caller through
ProfileForbiddenNever(current_user, user_id) == FALSE

\* the caller is neither the user of the record nor an admin
ProfileForbidden(current_user, user_id) ==
    current_user.id # user_id /\ current_user.user_type # "admin"

update_user_profile(user_id, update_data, tk, expired) ==
    LET current_user == get_current_user(tk, expired)
        args == [user_id |-> user_id, patch |-> update_data]
        result == SelectEq(UpdateEq(users, "id", user_id, update_data),
                           "id", user_id)
    IN  /\ IF current_user = NoUser
           THEN /\ resp' = Unauthorized("update_user_profile")
                /\ UNCHANGED users
           ELSE IF ProfileForbidden(current_user, user_id)
           THEN /\ resp' = Response("update_user_profile", 403,
                                    current_user.id, args, NoBody)
                /\ UNCHANGED users
           ELSE /\ users' = UpdateEq(users, "id", user_id, update_data)
                /\ IF Len(result) > 0
                   THEN resp' = Response("update_user_profile", 200,
                                         current_user.id, args,
                                         [user |-> PublicUser(result[1])])
                   ELSE resp' = Response("update_user_profile", 500,
                                         current_user.id, args, NoBody)
        /\ UNCHANGED <<calls, tokens, now, shop>>

(***************************************************************************)
(* Pagination: query.range(start, start + limit - 1) and the page count.   *)
(***************************************************************************)
Min(a, b) == IF a < b THEN a ELSE b

\* rows at the 0-based offsets first..last of the result
Range(rows, first, last) == SubSeq(rows, first + 1, Min(last + 1, Len(rows)))

PageRows(rows, page, limit) ==
    LET start == (page - 1) * limit
    IN  Range(rows, start, start + limit - 1)

\* a page count that rounds down
PageCountFloor(total, limit) == total \div limit

PageCount(total, limit) == (total + limit - 1) \div limit

(***************************************************************************)
(* Admin endpoints.                                                        *)
(***************************************************************************)
get_all_users(page, limit, tk, expired) ==
    LET current_user == get_current_user(tk, expired)
        args == [page |-> page, limit |-> limit]
        response == PageRows(users, page, limit)
        total == Len(users)
    IN  /\ IF current_user = NoUser
           THEN resp' = Unauthorized("get_all_users")
           ELSE IF current_user.user_type # "admin"
           THEN resp' = Response("get_all_users", 403, current_user.id, args,
                                 NoBody)
           ELSE resp' = Response("get_all_users", 200, current_user.id, args,
                                 [users |-> [i \in DOMAIN response |->
                                                PublicUser(response[i])],
                                  total |-> total,
                                  pages |-> PageCount(total, limit)])
        /\ UNCHANGED <<calls, users, tokens, now, shop>>

(***************************************************************************)
(* Products management.                                                    *)
(***************************************************************************)
\* farmer_id = 0 stands for a request without the farmer_id filter
get_products(farmer_id, page, limit) ==
    LET args == [farmer_id |-> farmer_id, page |-> page, limit |-> limit]
        matching == IF farmer_id # 0
                    THEN SelectEq(products, "farmer_id", farmer_id)
                    ELSE products
        products_page == PageRows(matching, page, limit)
        total == Len(matching)
    IN  /\ resp' = Response("get_products", 200, 0, args,
                            [products |-> products_page,
                             total |-> total,
                             pages |-> PageCount(total, limit)])
        /\ UNCHANGED <<calls, users, tokens, now, shop>>

create_product(price, quantity, tk, expired) ==
    LET current_user == get_current_user(tk, expired)
        args == [price |-> price, quantity |-> quantity]
        product_obj == [id |-> product_seq + 1,
                        price |-> price,
                        quantity |-> quantity,
                        farmer_id |-> current_user.id]
    IN  /\ IF current_user = NoUser
           THEN /\ resp' = Unauthorized("create_product")
                /\ UNCHANGED <<products, product_seq>>
           ELSE IF current_user.user_type # "farmer"
           THEN /\ resp' = Response("create_product", 403, current_user.id,
                                    args, NoBody)
                /\ UNCHANGED <<products, product_seq>>
           ELSE /\ product_seq < MaxProducts
                /\ products' = Insert(products, product_obj)
                /\ product_seq' = product_seq + 1
                /\ resp' = Response("create_product", 200, current_user.id,
                                    args, [product |-> product_obj])
        /\ UNCHANGED <<calls, users, tokens, now, carts, cart_items, orders,
                       order_items>>

\* product_data.dict(exclude_unset=True): the fields the request sets
PricePatches == {[price |-> p] : p \in Prices}

ProductPatches == PricePatches \cup {[quantity |-> q] : q \in Stock}

\* the lookup without its farmer_id filter
OwnProductAnyOwner(product_id, user_id) == SelectEq(products, "id", product_id)

\* products.select('*').eq('id', product_id).eq('farmer_id', caller)
OwnProduct(product_id, user_id) ==
    SelectEq2(products, "id", product_id, "farmer_id", user_id)

update_product(product_id, product_data, tk, expired) ==
    LET current_user == get_current_user(tk, expired)
        args == [product_id |-> product_id, patch |-> product_data]
        response == OwnProduct(product_id, current_user.id)
        updated == UpdateEq(products, "id", product_id, product_data)
        result == SelectEq(updated, "id", product_id)
    IN  /\ IF current_user = NoUser
           THEN /\ resp' = Unauthorized("update_product")
                /\ UNCHANGED products
           ELSE IF Len(response) = 0
           THEN /\ resp' = Response("update_product", 404, current_user.id,
                                    args, NoBody)
                /\ UNCHANGED products
           ELSE /\ products' = updated
                /\ IF Len(result) > 0
                   THEN resp' = Response("update_product", 200,
                                         current_user.id, args,
                                         [product |-> result[1]])
                   ELSE resp' = Response("update_product", 500,
                                         current_user.id, args, NoBody)
        /\ UNCHANGED <<calls, users, tokens, now, product_seq, carts, cart_items,
                       orders, order_items>>

\* cart_items.product_id and order_items.product_id reference products.id
\* (the handlers embed products in both): deleting a referenced product is
\* refused by the store or cascades to the referencing rows, as the foreign
\* keys are declared
ForeignKeyPolicies == {"restrict", "cascade"}

Referenced(product_id) ==
    \/ Len(SelectEq(cart_items, "product_id", product_id)) > 0
    \/ Len(SelectEq(order_items, "product_id", product_id)) > 0

delete_product(product_id, tk, expired, fk) ==
    LET current_user == get_current_user(tk, expired)
        args == [product_id |-> product_id]
        response == OwnProduct(product_id, current_user.id)
    IN  /\ IF current_user = NoUser
           THEN /\ resp' = Unauthorized("delete_product")
                /\ UNCHANGED <<products, cart_items, order_items>>
           ELSE IF Len(response) = 0
           THEN /\ resp' = Response("delete_product", 404, current_user.id,
                                    args, NoBody)
                /\ UNCHANGED <<products, cart_items, order_items>>
           ELSE IF Referenced(product_id) /\ fk = "restrict"
           THEN /\ resp' = Response("delete_product", 500, current_user.id,
                                    args, NoBody)
                /\ UNCHANGED <<products, cart_items, order_items>>
           ELSE /\ products' = DeleteEq(products, "id", product_id)
                /\ cart_items' = DeleteEq(cart_items, "product_id", product_id)
                /\ order_items' = DeleteEq(order_items, "product_id", product_id)
                /\ resp' = Response("delete_product", 200, current_user.id,
                                    args, NoBody)
        /\ UNCHANGED <<calls, users, tokens, now, product_seq, carts, orders>>

(***************************************************************************)
(* Cart management.                                                        *)
(***************************************************************************)
\* a total that adds the prices and forgets the quantities
LinesTotalNoQuantity(lines) ==
    SumSeq([i \in DOMAIN lines |-> lines[i].price])

\* a total that stops at the first line
LinesTotalFirstLine(lines) ==
    IF lines = <<>> THEN 0 ELSE lines[1].price * lines[1].quantity

\* sum(item['price'] * item['quantity'] for item in cart_items.data)
LinesTotal(lines) ==
    SumSeq([i \in DOMAIN lines |-> lines[i].price * lines[i].quantity])

get_cart(tk, expired) ==
    LET current_user == get_current_user(tk, expired)
        cart_response == SelectEq(carts, "user_id", current_user.id)
        cart_obj == [id |-> Len(carts) + 1, user_id |-> current_user.id,
                     total |-> 0]
    IN  /\ IF current_user = NoUser
           THEN /\ resp' = Unauthorized("get_cart")
                /\ UNCHANGED carts
           ELSE IF Len(cart_response) > 0
           THEN /\ resp' = Response("get_cart", 200, current_user.id, NoBody,
                                    [cart |-> cart_response[1],
                                     cart_items |->
                                         SelectEq(cart_items, "cart_id",
                                                  cart_response[1].id)])
                /\ UNCHANGED carts
           ELSE /\ Len(carts) < MaxCarts
                /\ carts' = Insert(carts, cart_obj)
                /\ resp' = Response("get_cart", 200, current_user.id, NoBody,
                                    [cart |-> cart_obj, cart_items |-> <<>>])
        /\ UNCHANGED <<calls, users, tokens, now, products, product_seq, cart_items,
                       orders, order_items>>

add_to_cart(product_id, quantity, tk, expired) ==
    LET current_user == get_current_user(tk, expired)
        args == [product_id |-> product_id, quantity |-> quantity]
        cart_response == SelectEq(carts, "user_id", current_user.id)
        created == Len(cart_response) = 0
        cart_id == IF created THEN Len(carts) + 1 ELSE cart_response[1].id
        cart_obj == [id |-> cart_id, user_id |-> current_user.id, total |-> 0]
        carts1 == IF created THEN Insert(carts, cart_obj) ELSE carts
        product_response == SelectEq(products, "id", product_id)
        product_price == product_response[1].price
        item_obj == [cart_id |-> cart_id, product_id |-> product_id,
                     quantity |-> quantity, price |-> product_price]
        items1 == Upsert(cart_items, item_obj, "cart_id", "product_id")
        total == LinesTotal(SelectEq(items1, "cart_id", cart_id))
    IN  /\ IF current_user = NoUser
           THEN /\ resp' = Unauthorized("add_to_cart")
                /\ UNCHANGED <<carts, cart_items>>
           ELSE /\ created => Len(carts) < MaxCarts
                /\ IF Len(product_response) = 0
                   THEN /\ carts' = carts1
                        /\ UNCHANGED cart_items
                        /\ resp' = Response("add_to_cart", 404,
                                            current_user.id, args, NoBody)
                   ELSE /\ Len(items1) <= MaxCartItems
                        /\ cart_items' = items1
                        /\ carts' = UpdateEq(carts1, "id", cart_id,
                                             [total |-> total])
                        /\ resp' = Response("add_to_cart", 200,
                                            current_user.id, args,
                                            [cart_id |-> cart_id])
        /\ UNCHANGED <<calls, users, tokens, now, products, product_seq, orders,
                       order_items>>

remove_from_cart(product_id, tk, expired) ==
    LET current_user == get_current_user(tk, expired)
        args == [product_id |-> product_id]
        cart_response == SelectEq(carts, "user_id", current_user.id)
        cart_id == cart_response[1].id
        items1 == DeleteEq2(cart_items, "cart_id", cart_id,
                            "product_id", product_id)
        total == LinesTotal(SelectEq(items1, "cart_id", cart_id))
    IN  /\ IF current_user = NoUser
           THEN /\ resp' = Unauthorized("remove_from_cart")
                /\ UNCHANGED <<carts, cart_items>>
           ELSE IF Len(cart_response) = 0
           THEN /\ resp' = Response("remove_from_cart", 404, current_user.id,
                                    args, NoBody)
                /\ UNCHANGED <<carts, cart_items>>
           ELSE /\ cart_items' = items1
                /\ carts' = UpdateEq(carts, "id", cart_id, [total |-> total])
                /\ resp' = Response("remove_from_cart", 200, current_user.id,
                                    args, [cart_id |-> cart_id])
        /\ UNCHANGED <<calls, users, tokens, now, products, product_seq, orders,
                       order_items>>

clear_cart(tk, expired) ==
    LET current_user == get_current_user(tk, expired)
        cart_response == SelectEq(carts, "user_id", current_user.id)
        cart_id == cart_response[1].id
    IN  /\ IF current_user = NoUser
           THEN /\ resp' = Unauthorized("clear_cart")
                /\ UNCHANGED <<carts, cart_items>>
           ELSE IF Len(cart_response) = 0
           THEN /\ resp' = Response("clear_cart", 404, current_user.id,
                                    NoBody, NoBody)
                /\ UNCHANGED <<carts, cart_items>>
           ELSE /\ cart_items' = DeleteEq(cart_items, "cart_id", cart_id)
                /\ carts' = UpdateEq(carts, "id", cart_id, [total |-> 0])
                /\ resp' = Response("clear_cart", 200, current_user.id,
                                    NoBody, [cart_id |-> cart_id])
        /\ UNCHANGED <<calls, users, tokens, now, products, product_seq, orders,
                       order_items>>

(***************************************************************************)
(* Orders management.                                                      *)
(***************************************************************************)
\* the users rows an embedded users(*) resource carries for a user id
JoinUser(user_id) == SelectEq(users, "id", user_id)

JoinOrder(order) ==
    [order |-> order,
     order_items |-> SelectEq(order_items, "order_id", order.id)]

Reverse(s) == [i \in DOMAIN s |-> s[Len(s) + 1 - i]]

\* status = "" stands for a request without the status filter
get_orders(status, page, limit, tk, expired) ==
    LET current_user == get_current_user(tk, expired)
        args == [status |-> status, page |-> page, limit |-> limit]
        by_status == IF status # "" THEN SelectEq(orders, "status", status)
                     ELSE orders
        by_role == IF current_user.user_type = "farmer"
                   THEN SelectEq(by_status, "farmer_id", current_user.id)
                   ELSE IF current_user.user_type = "buyer"
                   THEN SelectEq(by_status, "buyer_id", current_user.id)
                   ELSE by_status
        response == PageRows(Reverse(by_role), page, limit)
    IN  /\ IF current_user = NoUser
           THEN resp' = Unauthorized("get_orders")
           ELSE resp' = Response("get_orders", 200, current_user.id, args,
                                 [orders |-> [i \in DOMAIN response |->
                                     [row |-> JoinOrder(response[i]),
                                      users |-> JoinUser(response[i].buyer_id)]],
                                  total |-> Len(response)])
        /\ UNCHANGED <<calls, users, tokens, now, shop>>

get_order(order_id, tk, expired) ==
    LET current_user == get_current_user(tk, expired)
        args == [order_id |-> order_id]
        response == SelectEq(orders, "id", order_id)
        order == response[1]
    IN  /\ IF current_user = NoUser
           THEN resp' = Unauthorized("get_order")
           ELSE IF Len(response) = 0
           THEN resp' = Response("get_order", 404, current_user.id, args,
                                 NoBody)
           ELSE IF /\ current_user.id \notin {order.buyer_id, order.farmer_id}
                   /\ current_user.user_type # "admin"
           THEN resp' = Response("get_order", 403, current_user.id, args,
                                 NoBody)
           ELSE resp' = Response("get_order", 200, current_user.id, args,
                                 [order |->
                                     [row |-> JoinOrder(order),
                                      users |-> JoinUser(order.buyer_id)
                                                \o JoinUser(order.farmer_id)]])
        /\ UNCHANGED <<calls, users, tokens, now, shop>>

\* the cart lines of cart['cart_items'], each with its embedded product
CheckoutItems(lines) ==
    [i \in DOMAIN lines |->
        LET product == SelectEq(products, "id", lines[i].product_id)[1]
        IN  [farmer_id |-> product.farmer_id,
             product_id |-> product.id,
             quantity |-> lines[i].quantity,
             price |-> product.price]]

\* a grouping that opens a new order for every cart line
FarmerIdsPerLine(items) == [i \in DOMAIN items |-> items[i].farmer_id]

\* the keys of the farmer_orders dict, in the order they are first set
RECURSIVE FarmerIds(_)
FarmerIds(items) ==
    IF items = <<>> THEN <<>>
    ELSE LET n == Len(items)
             seen == FarmerIds(SubSeq(items, 1, n - 1))
         IN  IF \E i \in DOMAIN seen : seen[i] = items[n].farmer_id
             THEN seen
             ELSE Append(seen, items[n].farmer_id)

FarmerOrders(items) ==
    LET farmer_ids == FarmerIds(items)
    IN  [k \in DOMAIN farmer_ids |->
            LET own == SelectEq(items, "farmer_id", farmer_ids[k])
            IN  [farmer_id |-> farmer_ids[k],
                 items |-> own,
                 total_amount |-> LinesTotal(own)]]

\* products.update(quantity = <quantity read now> - item quantity)
DecrementStock(prods, item) ==
    LET quantity == SelectEq(prods, "id", item.product_id)[1].quantity
    IN  UpdateEq(prods, "id", item.product_id,
                 [quantity |-> quantity - item.quantity])

RECURSIVE DecrementAll(_, _)
DecrementAll(prods, items) ==
    IF items = <<>> THEN prods
    ELSE DecrementAll(DecrementStock(prods, items[1]), Tail(items))

OrderItemRows(order_id, items) ==
    [i \in DOMAIN items |->
        [order_id |-> order_id,
         product_id |-> items[i].product_id,
         quantity |-> items[i].quantity,
         price |-> items[i].price]]

RECURSIVE Flatten(_)
Flatten(seqs) == IF seqs = <<>> THEN <<>> ELSE seqs[1] \o Flatten(Tail(seqs))

\* the lookup without its user_id filter
OwnCartAnyOwner(cart_id, user_id) == SelectEq(carts, "id", cart_id)

\* carts.select(...).eq('id', cart_id).eq('user_id', caller)
OwnCart(cart_id, user_id) ==
    SelectEq2(carts, "id", cart_id, "user_id", user_id)

checkout_order(cart_id, tk, expired) ==
    LET current_user == get_current_user(tk, expired)
        args == [cart_id |-> cart_id]
        cart_response == OwnCart(cart_id, current_user.id)
        lines == SelectEq(cart_items, "cart_id", cart_id)
        farmer_orders == FarmerOrders(CheckoutItems(lines))
        created_orders ==
            [k \in DOMAIN farmer_orders |->
                [id |-> Len(orders) + k,
                 buyer_id |-> current_user.id,
                 farmer_id |-> farmer_orders[k].farmer_id,
                 total_amount |-> farmer_orders[k].total_amount,
                 status |-> "pending"]]
        created_items ==
            [k \in DOMAIN farmer_orders |->
                OrderItemRows(created_orders[k].id, farmer_orders[k].items)]
    IN  /\ IF current_user = NoUser
           THEN /\ resp' = Unauthorized("checkout")
                /\ UNCHANGED <<products, carts, cart_items, orders, order_items>>
           ELSE IF Len(cart_response) = 0
           THEN /\ resp' = Response("checkout", 404, current_user.id, args,
                                    NoBody)
                /\ UNCHANGED <<products, carts, cart_items, orders, order_items>>
           ELSE IF Len(lines) = 0
           THEN /\ resp' = Response("checkout", 400, current_user.id, args,
                                    NoBody)
                /\ UNCHANGED <<products, carts, cart_items, orders, order_items>>
           ELSE /\ Len(orders) + Len(farmer_orders) <= MaxOrders
                /\ orders' = orders \o created_orders
                /\ order_items' = InsertMany(order_items, Flatten(created_items))
                /\ products' = DecrementAll(products, Flatten(created_items))
                /\ cart_items' = DeleteEq(cart_items, "cart_id", cart_id)
                /\ carts' = UpdateEq(carts, "id", cart_id, [total |-> 0])
                /\ resp' = Response("checkout", 200, current_user.id, args,
                                    [orders |-> created_orders])
        /\ UNCHANGED <<calls, users, tokens, now, product_seq>>

\* an authorization test that lets every caller through
OrderForbiddenNever(current_user, order) == FALSE

\* the caller is neither the order's buyer nor its farmer nor an admin
OrderForbidden(current_user, order) ==
    /\ current_user.id \notin {order.buyer_id, order.farmer_id}
    /\ current_user.user_type # "admin"

\* order_data.dict(exclude_unset=True): the fields the request sets
OrderPatches == {<<>>, [status |-> "confirmed"]}

update_order(order_id, order_data, tk, expired) ==
    LET current_user == get_current_user(tk, expired)
        args == [order_id |-> order_id, patch |-> order_data]
        response == SelectEq(orders, "id", order_id)
        order == response[1]
        updated == UpdateEq(orders, "id", order_id, order_data)
        result == SelectEq(updated, "id", order_id)
    IN  /\ IF current_user = NoUser
           THEN /\ resp' = Unauthorized("update_order")
                /\ UNCHANGED orders
           ELSE IF Len(response) = 0
           THEN /\ resp' = Response("update_order", 404, current_user.id,
                                    args, NoBody)
                /\ UNCHANGED orders
           ELSE IF OrderForbidden(current_user, order)
           THEN /\ resp' = Response("update_order", 403, current_user.id,
                                    args, NoBody)
                /\ UNCHANGED orders
           ELSE /\ orders' = updated
                /\ IF Len(result) > 0
                   THEN resp' = Response("update_order", 200, current_user.id,
                                         args, [order |-> result[1]])
                   ELSE resp' = Response("update_order", 500, current_user.id,
                                         args, NoBody)
        /\ UNCHANGED <<calls, users, tokens, now, products, product_seq, carts,
                       cart_items, order_items>>

\* the number of leading items of the request whose product is stored: the
\* quantity lookup of the next item raises, and the request ends in a 500
RECURSIVE KnownPrefix(_, _)
KnownPrefix(prods, items) ==
    IF items = <<>> THEN 0
    ELSE IF Len(SelectEq(prods, "id", items[1].product_id)) = 0 THEN 0
    ELSE 1 + KnownPrefix(prods, Tail(items))

\* farmer_id, total_amount and the items are taken from the request as sent
create_order(farmer_id, total_amount, items, tk, expired) ==
    LET current_user == get_current_user(tk, expired)
        args == [farmer_id |-> farmer_id, total_amount |-> total_amount,
                 items |-> items]
        order_obj == [id |-> Len(orders) + 1,
                      buyer_id |-> current_user.id,
                      farmer_id |-> farmer_id,
                      total_amount |-> total_amount,
                      status |-> "pending"]
        n == KnownPrefix(products, items)
    IN  /\ IF current_user = NoUser
           THEN /\ resp' = Unauthorized("create_order")
                /\ UNCHANGED <<products, orders, order_items>>
           ELSE /\ Len(orders) < MaxOrders
                /\ orders' = Insert(orders, order_obj)
                /\ products' = DecrementAll(products, SubSeq(items, 1, n))
                /\ IF n < Len(items)
                   THEN /\ UNCHANGED order_items
                        /\ resp' = Response("create_order", 500,
                                            current_user.id, args, NoBody)
                   ELSE /\ order_items' =
                               InsertMany(order_items,
                                          OrderItemRows(order_obj.id, items))
                        /\ resp' = Response("create_order", 200,
                                            current_user.id, args,
                                            [order |-> order_obj])
        /\ UNCHANGED <<calls, users, tokens, now, product_seq, carts, cart_items>>

\* time passes between requests
Tick ==
    /\ now < MaxTime
    /\ now' = now + 1
    /\ resp' = Response("none", 0, 0, NoBody, NoBody)
    /\ UNCHANGED <<calls, users, tokens, shop>>

(***************************************************************************)
(* The cart handlers, one store call at a time.  A request takes the       *)
(* lowest free slot of calls with its first store call and keeps it, done, *)
(* with the status of its response; between two of its store calls any     *)
(* other request in flight may make one of its own.  A request records     *)
(* whether it was in flight together with another one.                     *)
(***************************************************************************)
FreeSlot(c) ==
    /\ calls[c] = Idle
    /\ \A d \in 1..(c - 1) : calls[d] # Idle

InFlight(c) == calls[c].pc \notin {"idle", "done"}

\* no request is between two of its store calls
Quiet == \A c \in DOMAIN calls : ~InFlight(c)

\* the request enters slot c with the locals of its handler
Enter(c, locals) ==
    calls' = [d \in DOMAIN calls |->
                 IF d = c
                 THEN locals @@ [status |-> 0,
                                 overlapped |-> \E e \in DOMAIN calls :
                                                   InFlight(e)]
                 ELSE IF InFlight(d)
                 THEN [calls[d] EXCEPT !.overlapped = TRUE]
                 ELSE calls[d]]

At(c, op, pc) ==
    /\ calls[c] # Idle
    /\ calls[c].op = op
    /\ calls[c].pc = pc

Goto(c, pc) == calls' = [calls EXCEPT ![c].pc = pc]

\* the request in slot c is answered
Done(c, status) ==
    calls' = [calls EXCEPT ![c].pc = "done", ![c].status = status]

\* get_cart: carts.select(...).eq('user_id', caller), answered at once when a
\* cart is found
get_cart_select(c, tk, expired) ==
    LET current_user == get_current_user(tk, expired)
        cart_response == SelectEq(carts, "user_id", current_user.id)
    IN  /\ FreeSlot(c)
        /\ IF current_user = NoUser
           THEN /\ resp' = Unauthorized("get_cart")
                /\ UNCHANGED calls
           ELSE IF Len(cart_response) > 0
           THEN /\ resp' = Response("get_cart", 200, current_user.id, NoBody,
                                    [cart |-> cart_response[1],
                                     cart_items |->
                                         SelectEq(cart_items, "cart_id",
                                                  cart_response[1].id)])
                /\ UNCHANGED calls
           ELSE /\ Enter(c, [op |-> "get_cart", pc |-> "insert",
                              user_id |-> current_user.id])
                /\ UNCHANGED resp
        /\ UNCHANGED <<users, tokens, now, shop>>

\* get_cart: carts.insert(cart_obj)
get_cart_insert(c) ==
    LET cart_obj == [id |-> Len(carts) + 1, user_id |-> calls[c].user_id,
                     total |-> 0]
    IN  /\ At(c, "get_cart", "insert")
        /\ Len(carts) < MaxRaceCarts
        /\ carts' = Insert(carts, cart_obj)
        /\ resp' = Response("get_cart", 200, calls[c].user_id, NoBody,
                            [cart |-> cart_obj, cart_items |-> <<>>])
        /\ Done(c, 200)
        /\ UNCHANGED <<users, tokens, now, products, product_seq, cart_items,
                       orders, order_items>>

\* add_to_cart: carts.select('*').eq('user_id', caller)
add_to_cart_select(c, product_id, quantity, tk, expired) ==
    LET current_user == get_current_user(tk, expired)
        cart_response == SelectEq(carts, "user_id", current_user.id)
        found == Len(cart_response) > 0
    IN  /\ FreeSlot(c)
        /\ IF current_user = NoUser
           THEN /\ resp' = Unauthorized("add_to_cart")
                /\ UNCHANGED calls
           ELSE /\ Enter(c, [op |-> "add_to_cart",
                              pc |-> IF found THEN "product" ELSE "insert",
                              user_id |-> current_user.id,
                              product_id |-> product_id,
                              quantity |-> quantity,
                              cart_id |-> IF found THEN cart_response[1].id
                                          ELSE 0,
                              price |-> 0,
                              total |-> 0])
                /\ UNCHANGED resp
        /\ UNCHANGED <<users, tokens, now, shop>>

\* add_to_cart: carts.insert(cart_obj)
add_to_cart_insert(c) ==
    LET cart_id == Len(carts) + 1
        cart_obj == [id |-> cart_id, user_id |-> calls[c].user_id,
                     total |-> 0]
    IN  /\ At(c, "add_to_cart", "insert")
        /\ Len(carts) < MaxRaceCarts
        /\ carts' = Insert(carts, cart_obj)
        /\ calls' = [calls EXCEPT ![c].pc = "product", ![c].cart_id = cart_id]
        /\ UNCHANGED <<users, tokens, now, products, product_seq, cart_items,
                       orders, order_items, resp>>

\* add_to_cart: products.select('price').eq('id', product_id)
add_to_cart_price(c) ==
    LET product_response == SelectEq(products, "id", calls[c].product_id)
        args == [product_id |-> calls[c].product_id,
                 quantity |-> calls[c].quantity]
    IN  /\ At(c, "add_to_cart", "product")
        /\ IF Len(product_response) = 0
           THEN /\ resp' = Response("add_to_cart", 404, calls[c].user_id,
                                    args, NoBody)
                /\ Done(c, 404)
           ELSE /\ calls' = [calls EXCEPT
                                ![c].pc = "upsert",
                                ![c].price = product_response[1].price]
                /\ UNCHANGED resp
        /\ UNCHANGED <<users, tokens, now, shop>>

\* add_to_cart: cart_items.upsert(item_obj, on_conflict='cart_id,product_id')
add_to_cart_upsert(c) ==
    LET item_obj == [cart_id |-> calls[c].cart_id,
                     product_id |-> calls[c].product_id,
                     quantity |-> calls[c].quantity,
                     price |-> calls[c].price]
        items1 == Upsert(cart_items, item_obj, "cart_id", "product_id")
    IN  /\ At(c, "add_to_cart", "upsert")
        /\ Len(items1) <= MaxCartItems
        /\ cart_items' = items1
        /\ Goto(c, "lines")
        /\ UNCHANGED <<users, tokens, now, products, product_seq, carts,
                       orders, order_items, resp>>

\* add_to_cart: cart_items.select('*').eq('cart_id', cart_id) and the sum
add_to_cart_lines(c) ==
    /\ At(c, "add_to_cart", "lines")
    /\ calls' = [calls EXCEPT
                    ![c].pc = "total",
                    ![c].total = LinesTotal(SelectEq(cart_items, "cart_id",
                                                     calls[c].cart_id))]
    /\ UNCHANGED <<users, tokens, now, shop, resp>>

\* add_to_cart: carts.update({"total": total}).eq('id', cart_id)
add_to_cart_total(c) ==
    /\ At(c, "add_to_cart", "total")
    /\ carts' = UpdateEq(carts, "id", calls[c].cart_id,
                         [total |-> calls[c].total])
    /\ resp' = Response("add_to_cart", 200, calls[c].user_id,
                        [product_id |-> calls[c].product_id,
                         quantity |-> calls[c].quantity],
                        [cart_id |-> calls[c].cart_id])
    /\ Done(c, 200)
    /\ UNCHANGED <<users, tokens, now, products, product_seq, cart_items,
                   orders, order_items>>

\* remove_from_cart: carts.select('*').eq('user_id', caller)
remove_from_cart_select(c, product_id, tk, expired) ==
    LET current_user == get_current_user(tk, expired)
        args == [product_id |-> product_id]
        cart_response == SelectEq(carts, "user_id", current_user.id)
    IN  /\ FreeSlot(c)
        /\ IF current_user = NoUser
           THEN /\ resp' = Unauthorized("remove_from_cart")
                /\ UNCHANGED calls
           ELSE IF Len(cart_response) = 0
           THEN /\ resp' = Response("remove_from_cart", 404, current_user.id,
                                    args, NoBody)
                /\ UNCHANGED calls
           ELSE /\ Enter(c, [op |-> "remove_from_cart",
                             pc |-> "delete",
                             user_id |-> current_user.id,
                             product_id |-> product_id,
                             cart_id |-> cart_response[1].id,
                             total |-> 0])
                /\ UNCHANGED resp
        /\ UNCHANGED <<users, tokens, now, shop>>

\* remove_from_cart: cart_items.delete().eq('cart_id', ...).eq('product_id', ...)
remove_from_cart_delete(c) ==
    /\ At(c, "remove_from_cart", "delete")
    /\ cart_items' = DeleteEq2(cart_items, "cart_id", calls[c].cart_id,
                               "product_id", calls[c].product_id)
    /\ Goto(c, "lines")
    /\ UNCHANGED <<users, tokens, now, products, product_seq, carts, orders,
                   order_items, resp>>

\* remove_from_cart: cart_items.select('*').eq('cart_id', cart_id) and the sum
remove_from_cart_lines(c) ==
    /\ At(c, "remove_from_cart", "lines")
    /\ calls' = [calls EXCEPT
                    ![c].pc = "total",
                    ![c].total = LinesTotal(SelectEq(cart_items, "cart_id",
                                                     calls[c].cart_id))]
    /\ UNCHANGED <<users, tokens, now, shop, resp>>

\* remove_from_cart: carts.update({"total": total}).eq('id', cart_id)
remove_from_cart_total(c) ==
    /\ At(c, "remove_from_cart", "total")
    /\ carts' = UpdateEq(carts, "id", calls[c].cart_id,
                         [total |-> calls[c].total])
    /\ resp' = Response("remove_from_cart", 200, calls[c].user_id,
                        [product_id |-> calls[c].product_id],
                        [cart_id |-> calls[c].cart_id])
    /\ Done(c, 200)
    /\ UNCHANGED <<users, tokens, now, products, product_seq, cart_items,
                   orders, order_items>>

\* register_user: users.select('email').eq('email', email)
register_user_email(c, username, email, password, user_type) ==
    /\ FreeSlot(c)
    /\ IF EmailTaken(email)
       THEN /\ resp' = Response("register", 400, 0,
                                [username |-> username, email |-> email],
                                NoBody)
            /\ UNCHANGED calls
       ELSE /\ Enter(c, [op |-> "register", pc |-> "username",
                         username |-> username, email |-> email,
                         password |-> password, user_type |-> user_type])
            /\ UNCHANGED resp
    /\ UNCHANGED <<users, tokens, now, shop>>

\* register_user: users.select('username').eq('username', username)
register_user_username(c) ==
    /\ At(c, "register", "username")
    /\ IF UsernameTaken(calls[c].username)
       THEN /\ resp' = Response("register", 400, 0,
                                [username |-> calls[c].username,
                                 email |-> calls[c].email], NoBody)
            /\ Done(c, 400)
       ELSE /\ Goto(c, "insert")
            /\ UNCHANGED resp
    /\ UNCHANGED <<users, tokens, now, shop>>

\* what users.insert(user_obj) can do: the store inserts the row, or, where
\* a row with the email or the username is stored and the table declares the
\* column unique, rejects it
InsertOutcomes(user_obj) ==
    IF EmailTaken(user_obj.email) \/ UsernameTaken(user_obj.username)
    THEN {"inserted", "rejected"}
    ELSE {"inserted"}

\* register_user: users.insert(user_obj), the token and the response
register_user_insert(c, outcome) ==
    LET args == [username |-> calls[c].username, email |-> calls[c].email]
        user_obj == [id |-> Len(users) + 1,
                     username |-> calls[c].username,
                     email |-> calls[c].email,
                     password_hash |-> get_password_hash(calls[c].password),
                     user_type |-> calls[c].user_type]
        token == create_access_token(
                     [sub |-> user_obj.id, email |-> user_obj.email,
                      user_type |-> user_obj.user_type], now)
    IN  /\ At(c, "register", "insert")
        /\ outcome \in InsertOutcomes(user_obj)
        /\ IF outcome = "rejected"
           THEN /\ resp' = Response("register", 500, 0, args, NoBody)
                /\ Done(c, 500)
                /\ UNCHANGED <<users, tokens>>
           ELSE /\ Len(users) < MaxUsers
                /\ Cardinality(tokens \cup {token}) <= MaxTokens
                /\ users' = Insert(users, user_obj)
                /\ tokens' = tokens \cup {token}
                /\ resp' = Response("register", 200, 0, args,
                                    [user |-> PublicUser(user_obj),
                                     token |-> token])
                /\ Done(c, 200)
        /\ UNCHANGED <<now, shop>>

(***************************************************************************)
(* The order handlers, one store call at a time.                           *)
(***************************************************************************)
\* a decrement that writes the quantity back as read
StockLeftUntouched(quantity, ordered) == quantity

\* <quantity read> - item['quantity']
StockLeft(quantity, ordered) == quantity - ordered

\* a checkout that clears the cart after its first order
AfterItemsClear(k, n) == "clear"

\* checkout_order after the order items of the k-th of n per-farmer orders:
\* the next order, or the cart
AfterItems(k, n) == IF k < n THEN "order" ELSE "clear"

\* create_order: orders.insert(order_obj); the items are taken next
create_order_insert(c, farmer_id, total_amount, items, tk, expired) ==
    LET current_user == get_current_user(tk, expired)
        order_obj == [id |-> Len(orders) + 1,
                      buyer_id |-> current_user.id,
                      farmer_id |-> farmer_id,
                      total_amount |-> total_amount,
                      status |-> "pending"]
    IN  /\ FreeSlot(c)
        /\ IF current_user = NoUser
           THEN /\ resp' = Unauthorized("create_order")
                /\ UNCHANGED <<orders, calls>>
           ELSE /\ orders' = Insert(orders, order_obj)
                /\ Enter(c, [op |-> "create_order",
                             pc |-> IF items = <<>> THEN "respond" ELSE "read",
                             user_id |-> current_user.id,
                             order |-> order_obj,
                             items |-> items,
                             i |-> 1,
                             stock |-> 0])
                /\ UNCHANGED resp
        /\ UNCHANGED <<users, tokens, now, products, product_seq, carts,
                       cart_items, order_items>>

\* products.select('quantity').eq('id', item['product_id']), of either
\* handler: data[0] of an empty result raises
order_read(c) ==
    LET item == calls[c].items[calls[c].i]
        response == SelectEq(products, "id", item.product_id)
    IN  /\ InFlight(c)
        /\ calls[c].pc = "read"
        /\ IF Len(response) = 0
           THEN /\ resp' = Response(calls[c].op, 500, calls[c].user_id,
                                    NoBody, NoBody)
                /\ Done(c, 500)
           ELSE /\ calls' = [calls EXCEPT ![c].pc = "write",
                                          ![c].stock = response[1].quantity]
                /\ UNCHANGED resp
        /\ UNCHANGED <<users, tokens, now, shop>>

\* products.update({"quantity": ...}).eq('id', item['product_id']), of
\* either handler
order_write(c) ==
    LET item == calls[c].items[calls[c].i]
    IN  /\ InFlight(c)
        /\ calls[c].pc = "write"
        /\ products' = UpdateEq(products, "id", item.product_id,
                                [quantity |->
                                    StockLeft(calls[c].stock, item.quantity)])
        /\ calls' = [calls EXCEPT
                        ![c].i = @ + 1,
                        ![c].pc = IF calls[c].i < Len(calls[c].items)
                                  THEN "read" ELSE "items"]
        /\ UNCHANGED <<users, tokens, now, product_seq, carts, cart_items,
                       orders, order_items, resp>>

\* create_order: order_items.insert(order_items) and the response
create_order_items(c) ==
    /\ InFlight(c)
    /\ calls[c].op = "create_order"
    /\ calls[c].pc \in {"items", "respond"}
    /\ order_items' =
          InsertMany(order_items,
                     OrderItemRows(calls[c].order.id, calls[c].items))
    /\ resp' = Response("create_order", 200, calls[c].user_id,
                        [farmer_id |-> calls[c].order.farmer_id,
                         total_amount |-> calls[c].order.total_amount,
                         items |-> calls[c].items],
                        [order |-> calls[c].order])
    /\ Done(c, 200)
    /\ UNCHANGED <<users, tokens, now, products, product_seq, carts,
                   cart_items, orders>>

\* checkout_order: the cart with its lines and their products, and the
\* grouping of the lines by farmer
checkout_select(c, cart_id, tk, expired) ==
    LET current_user == get_current_user(tk, expired)
        args == [cart_id |-> cart_id]
        cart_response == OwnCart(cart_id, current_user.id)
        lines == SelectEq(cart_items, "cart_id", cart_id)
    IN  /\ FreeSlot(c)
        /\ IF current_user = NoUser
           THEN /\ resp' = Unauthorized("checkout")
                /\ UNCHANGED calls
           ELSE IF Len(cart_response) = 0
           THEN /\ resp' = Response("checkout", 404, current_user.id, args,
                                    NoBody)
                /\ UNCHANGED calls
           ELSE IF Len(lines) = 0
           THEN /\ resp' = Response("checkout", 400, current_user.id, args,
                                    NoBody)
                /\ UNCHANGED calls
           ELSE /\ Enter(c, [op |-> "checkout",
                             pc |-> "order",
                             user_id |-> current_user.id,
                             cart |-> cart_response[1],
                             lines |-> lines,
                             farmer_orders |->
                                 FarmerOrders(CheckoutItems(lines)),
                             k |-> 1,
                             inserted |-> <<>>,
                             order |-> NoBody,
                             items |-> <<>>,
                             i |-> 1,
                             stock |-> 0,
                             at |-> ""])
                /\ UNCHANGED resp
        /\ UNCHANGED <<users, tokens, now, shop>>

\* checkout_order: orders.insert(order_obj) for the k-th farmer
checkout_insert(c) ==
    LET group == calls[c].farmer_orders[calls[c].k]
        order_obj == [id |-> Len(orders) + 1,
                      buyer_id |-> calls[c].user_id,
                      farmer_id |-> group.farmer_id,
                      total_amount |-> group.total_amount,
                      status |-> "pending"]
    IN  /\ At(c, "checkout", "order")
        /\ orders' = Insert(orders, order_obj)
        /\ calls' = [calls EXCEPT
                        ![c].pc = "read",
                        ![c].order = order_obj,
                        ![c].inserted = Append(@, order_obj),
                        ![c].items = group.items,
                        ![c].i = 1]
        /\ UNCHANGED <<users, tokens, now, products, product_seq, carts,
                       cart_items, order_items, resp>>

\* checkout_order: order_items.insert(order_items) of the k-th order
checkout_items(c) ==
    /\ At(c, "checkout", "items")
    /\ order_items' =
          InsertMany(order_items,
                     OrderItemRows(calls[c].order.id, calls[c].items))
    /\ calls' = [calls EXCEPT
                    ![c].pc = AfterItems(calls[c].k,
                                         Len(calls[c].farmer_orders)),
                    ![c].k = @ + 1]
    /\ UNCHANGED <<users, tokens, now, products, product_seq, carts,
                   cart_items, orders, resp>>

\* checkout_order: cart_items.delete().eq('cart_id', cart_id)
checkout_delete(c) ==
    /\ At(c, "checkout", "clear")
    /\ cart_items' = DeleteEq(cart_items, "cart_id", calls[c].cart.id)
    /\ Goto(c, "total")
    /\ UNCHANGED <<users, tokens, now, products, product_seq, carts, orders,
                   order_items, resp>>

\* checkout_order: carts.update({"total": 0}).eq('id', cart_id) and the
\* response
checkout_total(c) ==
    /\ At(c, "checkout", "total")
    /\ carts' = UpdateEq(carts, "id", calls[c].cart.id, [total |-> 0])
    /\ resp' = Response("checkout", 200, calls[c].user_id,
                        [cart_id |-> calls[c].cart.id],
                        [orders |-> calls[c].inserted])
    /\ Done(c, 200)
    /\ UNCHANGED <<users, tokens, now, products, product_seq, cart_items,
                   orders, order_items>>

\* checkout_order: the store call the request is about to make raises, and
\* the handler turns the exception into a 500
checkout_fail(c) ==
    /\ InFlight(c)
    /\ calls[c].op = "checkout"
    /\ resp' = Response("checkout", 500, calls[c].user_id,
                        [cart_id |-> calls[c].cart.id], NoBody)
    /\ calls' = [calls EXCEPT ![c].pc = "done", ![c].status = 500,
                              ![c].at = calls[c].pc]
    /\ UNCHANGED <<users, tokens, now, shop>>

(***************************************************************************)
(* Requests: a handler with its inputs drawn from the input sets.          *)
(***************************************************************************)
UserIds == 1..(MaxUsers + 1)
Pages == 1..2
Limits == 1..2
ProductIds == 1..MaxProducts
CartIds == 1..MaxCarts
OrderIds == 1..MaxOrders
Statuses == {"", "pending"}

Register ==
    \E username \in Usernames, email \in Emails, password \in Passwords,
       user_type \in UserTypes :
        register_user(username, email, password, user_type)

Login == \E email \in Emails, password \in Passwords : login_user(email, password)

Me ==
    \E tk \in Presentable : \E expired \in ExpiryOutcomes(tk, now) :
        get_current_user_profile(tk, expired)

GetUserProfile == \E user_id \in UserIds : get_user_profile(user_id)

UpdateUserProfile ==
    \E user_id \in UserIds, update_data \in UserPatches, tk \in Presentable :
        \E expired \in ExpiryOutcomes(tk, now) :
            update_user_profile(user_id, update_data, tk, expired)

GetAllUsers ==
    \E page \in Pages, limit \in Limits, tk \in Presentable :
        \E expired \in ExpiryOutcomes(tk, now) :
            get_all_users(page, limit, tk, expired)

GetProducts ==
    \E farmer_id \in 0..2, page \in Pages, limit \in Limits :
        get_products(farmer_id, page, limit)

\* listing requests over the whole range of page sizes
BrowseProducts ==
    \E farmer_id \in 0..1, page \in 1..MaxPage, limit \in 1..LIMIT_MAX :
        get_products(farmer_id, page, limit)

CreateProduct ==
    \E price \in Prices, quantity \in Stock, tk \in Presentable :
        \E expired \in ExpiryOutcomes(tk, now) :
            create_product(price, quantity, tk, expired)

UpdateProduct ==
    \E product_id \in ProductIds, product_data \in ProductPatches,
       tk \in Presentable :
        \E expired \in ExpiryOutcomes(tk, now) :
            update_product(product_id, product_data, tk, expired)

\* a farmer changes a price
RepriceProduct ==
    \E product_id \in ProductIds, product_data \in PricePatches,
       tk \in Presentable :
        \E expired \in ExpiryOutcomes(tk, now) :
            update_product(product_id, product_data, tk, expired)

DeleteProduct ==
    \E product_id \in ProductIds, tk \in Presentable,
       fk \in ForeignKeyPolicies :
        \E expired \in ExpiryOutcomes(tk, now) :
            delete_product(product_id, tk, expired, fk)

\* a user puts two units of a product in the cart
AddPair ==
    \E product_id \in ProductIds, tk \in Presentable :
        \E expired \in ExpiryOutcomes(tk, now) :
            add_to_cart(product_id, 2, tk, expired)

GetCart ==
    \E tk \in Presentable : \E expired \in ExpiryOutcomes(tk, now) :
        get_cart(tk, expired)

AddToCart ==
    \E product_id \in ProductIds, quantity \in CartQtys, tk \in Presentable :
        \E expired \in ExpiryOutcomes(tk, now) :
            add_to_cart(product_id, quantity, tk, expired)

RemoveFromCart ==
    \E product_id \in ProductIds, tk \in Presentable :
        \E expired \in ExpiryOutcomes(tk, now) :
            remove_from_cart(product_id, tk, expired)

ClearCart ==
    \E tk \in Presentable : \E expired \in ExpiryOutcomes(tk, now) :
        clear_cart(tk, expired)

Checkout ==
    \E cart_id \in CartIds, tk \in Presentable :
        \E expired \in ExpiryOutcomes(tk, now) :
            checkout_order(cart_id, tk, expired)

GetOrders ==
    \E status \in Statuses, page \in {1}, limit \in Limits,
       tk \in Presentable :
        \E expired \in ExpiryOutcomes(tk, now) :
            get_orders(status, page, limit, tk, expired)

GetOrder ==
    \E order_id \in OrderIds, tk \in Presentable :
        \E expired \in ExpiryOutcomes(tk, now) :
            get_order(order_id, tk, expired)

\* the items of a create_order request: one line of two units at price 2,
\* of a stored product or of an unknown one
OrderItemLists ==
    {<<[product_id |-> p, quantity |-> 2, price |-> 2]>> :
        p \in {1, 2, MaxProducts + 1}}

CreateOrder ==
    \E farmer_id \in {1, 2}, items \in OrderItemLists, tk \in Presentable :
        \E expired \in ExpiryOutcomes(tk, now) :
            create_order(farmer_id, 4, items, tk, expired)

\* a client orders two units of a product from its farmer at its price now
OrderProduct ==
    \E p \in DOMAIN products, tk \in Presentable :
        \E expired \in ExpiryOutcomes(tk, now) :
            create_order(products[p].farmer_id, 2 * products[p].price,
                         <<[product_id |-> products[p].id, quantity |-> 2,
                            price |-> products[p].price]>>,
                         tk, expired)

UpdateOrder ==
    \E order_id \in OrderIds, order_data \in OrderPatches,
       tk \in Presentable :
        \E expired \in ExpiryOutcomes(tk, now) :
            update_order(order_id, order_data, tk, expired)

\* the cart requests of concurrent clients, store call by store call
GetCartSelect ==
    \E c \in 1..MaxCalls, tk \in Presentable :
        \E expired \in ExpiryOutcomes(tk, now) :
            get_cart_select(c, tk, expired)

GetCartInsert == \E c \in 1..MaxCalls : get_cart_insert(c)

AddToCartSelect ==
    \E c \in 1..MaxCalls, product_id \in {1, 2}, quantity \in CartQtys,
       tk \in Presentable :
        \E expired \in ExpiryOutcomes(tk, now) :
            add_to_cart_select(c, product_id, quantity, tk, expired)

AddToCartInsert == \E c \in 1..MaxCalls : add_to_cart_insert(c)

AddToCartPrice == \E c \in 1..MaxCalls : add_to_cart_price(c)

AddToCartUpsert == \E c \in 1..MaxCalls : add_to_cart_upsert(c)

AddToCartLines == \E c \in 1..MaxCalls : add_to_cart_lines(c)

AddToCartTotal == \E c \in 1..MaxCalls : add_to_cart_total(c)

RemoveFromCartSelect ==
    \E c \in 1..MaxCalls, product_id \in {1, 2}, tk \in Presentable :
        \E expired \in ExpiryOutcomes(tk, now) :
            remove_from_cart_select(c, product_id, tk, expired)

RemoveFromCartDelete == \E c \in 1..MaxCalls : remove_from_cart_delete(c)

RemoveFromCartLines == \E c \in 1..MaxCalls : remove_from_cart_lines(c)

RemoveFromCartTotal == \E c \in 1..MaxCalls : remove_from_cart_total(c)

\* the register requests of concurrent clients, store call by store call
RegisterEmail ==
    \E c \in 1..MaxCalls, username \in Usernames, email \in Emails :
        register_user_email(c, username, email, "pw", "buyer")

RegisterUsername == \E c \in 1..MaxCalls : register_user_username(c)

RegisterInsert ==
    \E c \in 1..MaxCalls, outcome \in {"inserted", "rejected"} :
        register_user_insert(c, outcome)

\* the order requests of concurrent clients, store call by store call
CreateOrderInsert ==
    \E c \in 1..MaxCalls, p \in DOMAIN products, quantity \in CartQtys,
       tk \in Presentable :
        \E expired \in ExpiryOutcomes(tk, now) :
            create_order_insert(c, products[p].farmer_id,
                                quantity * products[p].price,
                                <<[product_id |-> products[p].id,
                                   quantity |-> quantity,
                                   price |-> products[p].price]>>,
                                tk, expired)

OrderRead == \E c \in 1..MaxCalls : order_read(c)

OrderWrite == \E c \in 1..MaxCalls : order_write(c)

CreateOrderItems == \E c \in 1..MaxCalls : create_order_items(c)

CheckoutSelect ==
    \E c \in 1..MaxCalls, cart_id \in CartIds, tk \in Presentable :
        \E expired \in ExpiryOutcomes(tk, now) :
            checkout_select(c, cart_id, tk, expired)

\* a server that takes one checkout at a time
CheckoutSelectAlone == Quiet /\ CheckoutSelect

CheckoutInsert == \E c \in 1..MaxCalls : checkout_insert(c)

CheckoutItemsInsert == \E c \in 1..MaxCalls : checkout_items(c)

CheckoutDelete == \E c \in 1..MaxCalls : checkout_delete(c)

CheckoutTotal == \E c \in 1..MaxCalls : checkout_total(c)

CheckoutFail == \E c \in 1..MaxCalls : checkout_fail(c)

NoResponse == Response("none", 0, 0, NoBody, NoBody)

Init ==
    /\ users = <<>>
    /\ tokens = {}
    /\ now = 0
    /\ products = <<>>
    /\ product_seq = 0
    /\ carts = <<>>
    /\ cart_items = <<>>
    /\ orders = <<>>
    /\ order_items = <<>>
    /\ resp = NoResponse
    /\ calls = NoCalls

\* the identity endpoints, on an empty store
Next ==
    \/ Register
    \/ Login
    \/ Me
    \/ GetUserProfile
    \/ UpdateUserProfile
    \/ GetAllUsers

Spec == Init /\ [][Next]_vars

\* the shop endpoints, on a store where two farmers, a buyer and an admin
\* have registered and hold the tokens they were issued
SeedUser(id, name, user_type) ==
    [id |-> id, username |-> name, email |-> name,
     password_hash |-> get_password_hash("pw"), user_type |-> user_type]

SeedUsers ==
    <<SeedUser(1, "f1", "farmer"), SeedUser(2, "f2", "farmer"),
      SeedUser(3, "b", "buyer"), SeedUser(4, "a", "admin")>>

SeedTokens ==
    {create_access_token(
         [sub |-> SeedUsers[i].id, email |-> SeedUsers[i].email,
          user_type |-> SeedUsers[i].user_type], 0) : i \in DOMAIN SeedUsers}

\* a product of the first farmer and two of the second, as three
\* create_product requests leave them; the first farmer and the buyer stay
\* logged in
SeedProducts ==
    <<[id |-> 1, price |-> 2, quantity |-> 3, farmer_id |-> 1],
      [id |-> 2, price |-> 3, quantity |-> 3, farmer_id |-> 2],
      [id |-> 3, price |-> 3, quantity |-> 3, farmer_id |-> 2]>>

InitShop ==
    /\ users = SeedUsers
    /\ tokens = SeedTokens
    /\ now = 0
    /\ products = <<>>
    /\ product_seq = 0
    /\ carts = <<>>
    /\ cart_items = <<>>
    /\ orders = <<>>
    /\ order_items = <<>>
    /\ resp = NoResponse
    /\ calls = NoCalls

InitStocked ==
    /\ users = SeedUsers
    /\ tokens = {tk \in SeedTokens : tk.sub \in {1, 3}}
    /\ now = 0
    /\ products = SeedProducts
    /\ product_seq = Len(SeedProducts)
    /\ carts = <<>>
    /\ cart_items = <<>>
    /\ orders = <<>>
    /\ order_items = <<>>
    /\ resp = NoResponse
    /\ calls = NoCalls

\* a catalog of n products, the farmers taking turns to create them
InitCatalog ==
    \E n \in 0..MaxRows :
        /\ users = SeedUsers
        /\ tokens = SeedTokens
        /\ now = 0
        /\ products = [i \in 1..n |->
                          [id |-> i, price |-> 2, quantity |-> 3,
                           farmer_id |-> 1 + (i % 2)]]
        /\ product_seq = n
        /\ carts = <<>>
        /\ cart_items = <<>>
        /\ orders = <<>>
        /\ order_items = <<>>
        /\ resp = NoResponse
        /\ calls = NoCalls

\* paging through the catalog
NextPage == BrowseProducts

SpecPage == InitCatalog /\ [][NextPage]_vars

\* the catalog endpoints
NextCatalog == GetProducts \/ CreateProduct \/ UpdateProduct \/ DeleteProduct

SpecCatalog == InitShop /\ [][NextCatalog]_vars

\* the cart endpoints, while farmers change and delete their products
NextCart ==
    \/ GetCart
    \/ AddToCart
    \/ RemoveFromCart
    \/ ClearCart
    \/ UpdateProduct
    \/ DeleteProduct

SpecCart == InitStocked /\ [][NextCart]_vars

\* filling a cart and checking it out, while farmers change their prices
NextCheckout ==
    \/ AddPair
    \/ RepriceProduct
    \/ Checkout
    \/ GetOrders
    \/ GetOrder

SpecCheckout == InitStocked /\ [][NextCheckout]_vars

\* placing orders directly, reading and updating them
NextOrders == CreateOrder \/ UpdateOrder \/ GetOrder

SpecOrders == InitStocked /\ [][NextOrders]_vars

\* ordering a product directly and through the cart, while farmers change
\* their prices
NextReorder == OrderProduct \/ AddPair \/ RepriceProduct \/ Checkout

SpecReorder == InitStocked /\ [][NextReorder]_vars

\* the cart requests of the buyer's clients, served concurrently
InitRace ==
    /\ users = SeedUsers
    /\ tokens = {tk \in SeedTokens : tk.sub = 3}
    /\ now = 0
    /\ products = SeedProducts
    /\ product_seq = Len(SeedProducts)
    /\ carts = <<>>
    /\ cart_items = <<>>
    /\ orders = <<>>
    /\ order_items = <<>>
    /\ resp = NoResponse
    /\ calls = NoCalls

NextCartRace ==
    \/ GetCartSelect
    \/ GetCartInsert
    \/ AddToCartSelect
    \/ AddToCartInsert
    \/ AddToCartPrice
    \/ AddToCartUpsert
    \/ AddToCartLines
    \/ AddToCartTotal
    \/ RemoveFromCartSelect
    \/ RemoveFromCartDelete
    \/ RemoveFromCartLines
    \/ RemoveFromCartTotal

SpecCartRace == InitRace /\ [][NextCartRace]_vars

\* the buyer holds a cart with lines, as add_to_cart requests leave it
FilledCarts ==
    {<<[cart_id |-> 1, product_id |-> 1, quantity |-> 2, price |-> 2]>>,
     <<[cart_id |-> 1, product_id |-> 1, quantity |-> 1, price |-> 2],
       [cart_id |-> 1, product_id |-> 2, quantity |-> 2, price |-> 3]>>}

InitFilled ==
    \E lines \in FilledCarts :
        /\ users = SeedUsers
        /\ tokens = {tk \in SeedTokens : tk.sub = 3}
        /\ now = 0
        /\ products = SeedProducts
        /\ product_seq = Len(SeedProducts)
        /\ carts = <<[id |-> 1, user_id |-> 3, total |-> LinesTotal(lines)]>>
        /\ cart_items = lines
        /\ orders = <<>>
        /\ order_items = <<>>
        /\ resp = NoResponse
        /\ calls = NoCalls

\* order requests of the buyer's clients, served concurrently
NextOrderRace ==
    \/ CreateOrderInsert
    \/ CreateOrderItems
    \/ OrderRead
    \/ OrderWrite
    \/ CheckoutSelect
    \/ CheckoutInsert
    \/ CheckoutItemsInsert
    \/ CheckoutDelete
    \/ CheckoutTotal

SpecOrderRace == InitFilled /\ [][NextOrderRace]_vars

\* checkouts served one at a time by a store whose calls can fail
NextCheckoutFail ==
    \/ CheckoutSelectAlone
    \/ CheckoutInsert
    \/ OrderRead
    \/ OrderWrite
    \/ CheckoutItemsInsert
    \/ CheckoutDelete
    \/ CheckoutTotal
    \/ CheckoutFail

SpecCheckoutFail == InitFilled /\ [][NextCheckoutFail]_vars

\* register requests served concurrently, on an empty store
NextRegisterRace == RegisterEmail \/ RegisterUsername \/ RegisterInsert

SpecRegisterRace == Init /\ [][NextRegisterRace]_vars

\* token issue and resolution as time passes
NextClock == Register \/ Login \/ Me \/ Tick

SpecClock == Init /\ [][NextClock]_vars

(***************************************************************************)
(* Properties.                                                             *)
(***************************************************************************)
Elems(s) == {s[i] : i \in DOMAIN s}

RECURSIVE SetSum(_, _)
SetSum(S, f) ==
    IF S = {} THEN 0
    ELSE LET x == CHOOSE y \in S : TRUE
         IN  f[x] + SetSum(S \ {x}, f)

\* the lines of a cart, as indexes of cart_items
LinesOf(items, cart_id) == {i \in DOMAIN items : items[i].cart_id = cart_id}

\* price x quantity summed over the lines of a cart
LinesValue(items, cart_id) ==
    SetSum(LinesOf(items, cart_id),
           [i \in LinesOf(items, cart_id) |-> items[i].price * items[i].quantity])

ProductRow(prods, product_id) ==
    prods[CHOOSE i \in DOMAIN prods : prods[i].id = product_id]

CartOps == {"add_to_cart", "remove_from_cart", "clear_cart"}

\* C1: after every add_to_cart, remove_from_cart and clear_cart request that
\* went through, the stored total of the caller's cart is the sum of
\* price x quantity over the lines the cart holds at that moment.
C1_CartTotalIsLineSum ==
    (resp.op \in CartOps /\ resp.status = 200) =>
        \A c \in DOMAIN carts :
            carts[c].user_id = resp.caller =>
                carts[c].total = LinesValue(cart_items, carts[c].id)

\* a line was removed and the cart still holds a line whose price snapshot
\* differs from the product's price now
C1_Witness ==
    /\ resp.op = "remove_from_cart"
    /\ resp.status = 200
    /\ \E i \in DOMAIN cart_items :
          /\ cart_items[i].cart_id = resp.body.cart_id
          /\ \E p \in DOMAIN products :
                /\ products[p].id = cart_items[i].product_id
                /\ products[p].price # cart_items[i].price
    /\ \E c \in DOMAIN carts : carts[c].user_id = resp.caller /\ carts[c].total > 0

\* C2: a successful checkout of a cart whose lines belong to k distinct
\* farmers appends exactly k orders, one per farmer; each is pending, has the
\* caller as buyer, holds exactly the lines of its farmer and a total equal
\* to the sum of price x quantity over its own items; the cart is left with
\* no line and total 0; the response lists the created orders.
C2_CheckoutSplitsByFarmer ==
    [][(resp'.op = "checkout" /\ resp'.status = 200) =>
        LET cart_id == resp'.args.cart_id
            lines == LinesOf(cart_items, cart_id)
            FarmerOf(i) ==
                ProductRow(products, cart_items[i].product_id).farmer_id
            farmers == {FarmerOf(i) : i \in lines}
            new == (Len(orders) + 1)..Len(orders')
            ItemsOf(k) == {j \in DOMAIN order_items' :
                              order_items'[j].order_id = orders'[k].id}
        IN  /\ Len(orders') = Len(orders) + Cardinality(farmers)
            /\ SubSeq(orders', 1, Len(orders)) = orders
            /\ \A f \in farmers :
                  Cardinality({k \in new : orders'[k].farmer_id = f}) = 1
            /\ \A k \in new :
                  LET own == {i \in lines : FarmerOf(i) = orders'[k].farmer_id}
                  IN  /\ orders'[k].status = "pending"
                      /\ orders'[k].buyer_id = resp'.caller
                      /\ orders'[k].farmer_id \in farmers
                      /\ Cardinality(ItemsOf(k)) = Cardinality(own)
                      /\ \A i \in own : \E j \in ItemsOf(k) :
                            /\ order_items'[j].product_id = cart_items[i].product_id
                            /\ order_items'[j].quantity = cart_items[i].quantity
                      /\ orders'[k].total_amount =
                            SetSum(ItemsOf(k),
                                   [j \in ItemsOf(k) |->
                                       order_items'[j].price
                                           * order_items'[j].quantity])
            /\ LinesOf(cart_items', cart_id) = {}
            /\ \A c \in DOMAIN carts' :
                  carts'[c].id = cart_id => carts'[c].total = 0
            /\ resp'.body.orders = SubSeq(orders', Len(orders) + 1, Len(orders'))
      ]_vars

\* a checkout has created two orders, for two farmers
C2_Witness ==
    /\ resp.op = "checkout"
    /\ resp.status = 200
    /\ Len(resp.body.orders) = 2
    /\ resp.body.orders[1].farmer_id # resp.body.orders[2].farmer_id

\* C3: a checkout by an authenticated caller of a cart id that does not exist
\* or is another user's cart is answered 404, and of the caller's own cart
\* without lines 400; either way no table of the store changes.
C3_RejectedCheckoutChangesNothing ==
    [][(resp'.op = "checkout" /\ resp'.caller # 0) =>
        LET cart_id == resp'.args.cart_id
            own == \E c \in DOMAIN carts :
                      /\ carts[c].id = cart_id
                      /\ carts[c].user_id = resp'.caller
        IN  /\ ~own => resp'.status = 404
            /\ (own /\ LinesOf(cart_items, cart_id) = {}) => resp'.status = 400
            /\ resp'.status \in {400, 404} => UNCHANGED tables
      ]_vars

\* a checkout of another user's cart, which holds lines, was answered 404
C3_Witness ==
    /\ resp.op = "checkout"
    /\ resp.status = 404
    /\ \E c \in DOMAIN carts :
          /\ carts[c].id = resp.args.cart_id
          /\ carts[c].user_id # resp.caller
          /\ LinesOf(cart_items, carts[c].id) # {}

ProductOps == {"update_product", "delete_product"}

\* C4: update_product and delete_product by an authenticated caller who is
\* not the owning farmer of an existing product are answered 404 with the
\* body of the 404 for an unknown product id, and leave the products table
\* as it is.
C4_NonOwnerGetsNotFound ==
    [][(resp'.op \in ProductOps /\ resp'.caller # 0) =>
        LET product_id == resp'.args.product_id
            foreign == \E p \in DOMAIN products :
                          /\ products[p].id = product_id
                          /\ products[p].farmer_id # resp'.caller
            unknown == \A p \in DOMAIN products : products[p].id # product_id
        IN  (foreign \/ unknown) =>
                /\ resp'.status = 404
                /\ resp'.body = NoBody
                /\ products' = products
      ]_vars

\* a farmer's update of another farmer's product was answered 404
C4_Witness ==
    /\ resp.op = "update_product"
    /\ resp.status = 404
    /\ \E u \in DOMAIN users :
          users[u].id = resp.caller /\ users[u].user_type = "farmer"
    /\ \E p \in DOMAIN products :
          /\ products[p].id = resp.args.product_id
          /\ products[p].farmer_id # resp.caller

\* C5: a register request whose email or whose username is that of a stored
\* user is answered 400 without a token, and inserts no user row.
C5_DuplicateRegistrationRejected ==
    [][(/\ resp'.op = "register"
        /\ \E u \in DOMAIN users :
              \/ users[u].email = resp'.args.email
              \/ users[u].username = resp'.args.username) =>
            /\ resp'.status = 400
            /\ resp'.body = NoBody
            /\ users' = users
            /\ tokens' = tokens
      ]_vars

\* a registration was refused for its username alone
C5_Witness ==
    /\ resp.op = "register"
    /\ resp.status = 400
    /\ \E u \in DOMAIN users : users[u].username = resp.args.username
    /\ \A u \in DOMAIN users : users[u].email # resp.args.email

\* C6: register and login issue a token for the user that expires
\* TOKEN_DAYS after the time of issue; a token presented as issued resolves
\* to its user at every time before its expiry and is answered 401 at every
\* time after it.
C6_TokenValidForSevenDays ==
    /\ (resp.op \in {"register", "login"} /\ resp.status = 200) =>
          /\ resp.body.token.exp = now + TOKEN_DAYS
          /\ resp.body.token.sub = resp.body.user.id
          /\ resp.body.token \in tokens
    /\ (resp.op = "me" /\ resp.args.token \in tokens) =>
          /\ now < resp.args.token.exp =>
                /\ resp.status = 200
                /\ resp.body.user.id = resp.args.token.sub
                /\ resp.body.user.email = resp.args.token.email
          /\ now > resp.args.token.exp => resp.status = 401

\* an issued token was presented after its expiry and answered 401
C6_Witness ==
    /\ resp.op = "me"
    /\ resp.args.token \in tokens
    /\ now > resp.args.token.exp
    /\ resp.status = 401

\* C7: get_products returns min(limit, max(0, T - (page - 1) * limit)) of the
\* T matching products and reports ceil(T / limit) pages.
C7_Pagination ==
    resp.op = "get_products" =>
        LET page == resp.args.page
            limit == resp.args.limit
            T == Cardinality({i \in DOMAIN products :
                                 \/ resp.args.farmer_id = 0
                                 \/ products[i].farmer_id = resp.args.farmer_id})
            left == IF T - (page - 1) * limit > 0
                    THEN T - (page - 1) * limit ELSE 0
        IN  /\ Len(resp.body.products) = (IF limit < left THEN limit ELSE left)
            /\ resp.body.total = T
            /\ resp.body.pages >= 0
            /\ resp.body.pages * limit >= T
            /\ (resp.body.pages - 1) * limit < T

\* page 2 with limit 20 over 25 products: 5 products, 2 pages
C7_Witness ==
    /\ resp.op = "get_products"
    /\ resp.args.page = 2
    /\ resp.args.limit = 20
    /\ resp.body.total = 25
    /\ Len(resp.body.products) = 5
    /\ resp.body.pages = 2

\* the users rows a response carries
EmbeddedUsers(r) ==
    IF r.status # 200 THEN {}
    ELSE IF r.op \in {"register", "login", "me", "get_user_profile",
                      "update_user_profile"}
    THEN {r.body.user}
    ELSE IF r.op = "get_all_users" THEN Elems(r.body.users)
    ELSE IF r.op = "get_orders"
    THEN UNION {Elems(r.body.orders[i].users) : i \in DOMAIN r.body.orders}
    ELSE IF r.op = "get_order" THEN Elems(r.body.order.users)
    ELSE {}

\* C8: no response carries the password_hash column of a users row.
C8_NoPasswordHashInResponse ==
    \A row \in EmbeddedUsers(resp) : "password_hash" \notin DOMAIN row

\* C9: a cart never holds two lines for one product; add_to_cart of a product
\* the cart already holds leaves the number of lines as it is, and the one
\* line of that product carries the quantity of the request and the price of
\* the product at that time.
C9_OneLinePerProduct ==
    [][/\ \A i, j \in DOMAIN cart_items' :
             (/\ cart_items'[i].cart_id = cart_items'[j].cart_id
              /\ cart_items'[i].product_id = cart_items'[j].product_id) => i = j
       /\ (/\ resp'.op = "add_to_cart"
           /\ resp'.status = 200
           /\ \E i \in DOMAIN cart_items :
                 /\ cart_items[i].cart_id = resp'.body.cart_id
                 /\ cart_items[i].product_id = resp'.args.product_id) =>
              /\ Len(cart_items') = Len(cart_items)
              /\ \A i \in DOMAIN cart_items' :
                    (/\ cart_items'[i].cart_id = resp'.body.cart_id
                     /\ cart_items'[i].product_id = resp'.args.product_id) =>
                        /\ cart_items'[i].quantity = resp'.args.quantity
                        /\ cart_items'[i].price =
                              ProductRow(products, resp'.args.product_id).price
      ]_vars

\* the product of the first of two lines was added again: its line, older
\* than the second line, carries the new quantity and the new price
C9_Witness ==
    /\ resp.op = "add_to_cart"
    /\ resp.status = 200
    /\ Len(cart_items) = 2
    /\ cart_items[1].cart_id = resp.body.cart_id
    /\ cart_items[1].product_id = resp.args.product_id
    /\ cart_items[1].quantity = 2
    /\ cart_items[1].price = 3
    /\ cart_items[1].product_id = 1

\* C10: login is answered 200 with the user and a token exactly when a stored
\* user has the email and the hash of the password is that user's digest;
\* otherwise it is answered 401 without a token and the users table is left
\* as it is.
C10_LoginChecksCredentials ==
    [][resp'.op = "login" =>
        LET match == {u \in DOMAIN users :
                         /\ users[u].email = resp'.args.email
                         /\ users[u].password_hash =
                               get_password_hash(resp'.args.password)}
        IN  /\ resp'.status = 200 <=> match # {}
            /\ resp'.status = 200 =>
                  /\ \E u \in match : resp'.body.user.id = users[u].id
                  /\ resp'.body.token.sub = resp'.body.user.id
                  /\ resp'.body.token \in tokens'
            /\ resp'.status # 200 =>
                  /\ resp'.status = 401
                  /\ resp'.body = NoBody
                  /\ tokens' = tokens
            /\ users' = users
      ]_vars

\* a login with the empty password for a registered email was answered 401
C10_Witness ==
    /\ resp.op = "login"
    /\ resp.status = 401
    /\ resp.args.password = ""
    /\ \E u \in DOMAIN users : users[u].email = resp.args.email
\* C11: update_order by an authenticated caller who is neither the buyer nor
\* the farmer of an existing order nor an admin is answered 403, and every
\* update_order request that changes the orders table is made by the buyer,
\* the farmer or an admin of the one order it changes.
C11_UpdateOrderByParticipantOrAdmin ==
    [][resp'.op = "update_order" =>
        LET IsAdmin(id) == \E u \in DOMAIN users :
                              users[u].id = id /\ users[u].user_type = "admin"
            Allowed(o) == \/ resp'.caller \in {orders[o].buyer_id,
                                               orders[o].farmer_id}
                          \/ IsAdmin(resp'.caller)
        IN  /\ \A o \in DOMAIN orders :
                  (/\ resp'.caller # 0
                   /\ orders[o].id = resp'.args.order_id
                   /\ ~Allowed(o)) =>
                      resp'.status = 403 /\ orders' = orders
            /\ DOMAIN orders' = DOMAIN orders
            /\ \A o \in DOMAIN orders :
                  orders'[o] # orders[o] =>
                      /\ orders[o].id = resp'.args.order_id
                      /\ Allowed(o)
      ]_vars

\* a farmer's update of an order placed with another farmer was answered 403
C11_Witness ==
    /\ resp.op = "update_order"
    /\ resp.status = 403
    /\ resp.args.patch # <<>>
    /\ \E o \in DOMAIN orders :
          /\ orders[o].id = resp.args.order_id
          /\ resp.caller \notin {orders[o].buyer_id, orders[o].farmer_id}
          /\ orders[o].status = "pending"
\* C12: update_user_profile by an authenticated caller who is neither the
\* user of the record nor an admin is answered 403 and leaves the users
\* table as it is; every update_user_profile request that changes a users
\* row changes the row of the requested id only, for that user or an admin.
C12_UpdateProfileBySelfOrAdmin ==
    [][(resp'.op = "update_user_profile" /\ resp'.caller # 0) =>
        LET IsAdmin == \E u \in DOMAIN users :
                          /\ users[u].id = resp'.caller
                          /\ users[u].user_type = "admin"
            allowed == resp'.caller = resp'.args.user_id \/ IsAdmin
        IN  /\ ~allowed => (resp'.status = 403 /\ users' = users)
            /\ DOMAIN users' = DOMAIN users
            /\ \A u \in DOMAIN users :
                  users'[u] # users[u] =>
                      users[u].id = resp'.args.user_id /\ allowed
      ]_vars

\* a user's request to rename another user was answered 403
C12_Witness ==
    /\ resp.op = "update_user_profile"
    /\ resp.status = 403
    /\ \E u \in DOMAIN users :
          /\ users[u].id = resp.args.user_id
          /\ "username" \in DOMAIN resp.args.patch
          /\ users[u].username # resp.args.patch.username
\* C13: no two users rows share an email and no two share a username.
C13_UniqueEmailAndUsername ==
    \A u, v \in DOMAIN users :
        u # v => /\ users[u].email # users[v].email
                 /\ users[u].username # users[v].username
\* C14: every request that changes or deletes a products row is made by the
\* farmer who owns that row or by an admin.
C14_ProductChangedByOwnerOrAdmin ==
    [][\A p \in DOMAIN products :
          (\A q \in DOMAIN products' : products'[q] # products[p]) =>
              \/ products[p].farmer_id = resp'.caller
              \/ \E u \in DOMAIN users :
                    /\ users[u].id = resp'.caller
                    /\ users[u].user_type = "admin"
      ]_vars

\* C15: the quantity of every product is a non-negative integer.
C15_QuantityNonNegative ==
    \A p \in DOMAIN products : products[p].quantity \in Nat
\* C16: every order item references a product owned by the farmer of its
\* order.
C16_SingleVendorOrders ==
    \A i \in DOMAIN order_items : \A o \in DOMAIN orders :
        orders[o].id = order_items[i].order_id =>
            \A p \in DOMAIN products :
                products[p].id = order_items[i].product_id =>
                    products[p].farmer_id = orders[o].farmer_id
\* C17: no two carts rows belong to the same user.
C17_OneCartPerUser ==
    \A c, d \in DOMAIN carts :
        c # d => carts[c].user_id # carts[d].user_id
\* C18: the user_type of every users row is one of farmer, buyer and admin.
C18_RoleIsFarmerBuyerOrAdmin ==
    \A u \in DOMAIN users : users[u].user_type \in {"farmer", "buyer", "admin"}
\* C19: a successful checkout prices every order item at the price of its
\* cart line, and the totals of the orders it creates add up to the total
\* the cart held before the checkout.
C19_CheckoutUsesCartSnapshot ==
    [][(resp'.op = "checkout" /\ resp'.status = 200) =>
        LET cart_id == resp'.args.cart_id
            lines == LinesOf(cart_items, cart_id)
            new == (Len(orders) + 1)..Len(orders')
            new_items == (Len(order_items) + 1)..Len(order_items')
        IN  /\ \A j \in new_items : \E i \in lines :
                  /\ cart_items[i].product_id = order_items'[j].product_id
                  /\ cart_items[i].price = order_items'[j].price
            /\ SetSum(new, [k \in new |-> orders'[k].total_amount])
                  = LinesValue(cart_items, cart_id)
            /\ \A c \in DOMAIN carts :
                  carts[c].id = cart_id =>
                      SetSum(new, [k \in new |-> orders'[k].total_amount])
                          = carts[c].total
      ]_vars
OrderingOps == {"update_product", "add_to_cart", "create_order", "checkout"}

\* C20: update_product, add_to_cart, create_order and checkout leave every
\* order item created before the request with the price and the quantity it
\* had, and every order created before it with the total it had.
C20_OrderSnapshotsKept ==
    [][resp'.op \in OrderingOps =>
        /\ Len(order_items') >= Len(order_items)
        /\ \A j \in DOMAIN order_items :
              /\ order_items'[j].order_id = order_items[j].order_id
              /\ order_items'[j].product_id = order_items[j].product_id
              /\ order_items'[j].price = order_items[j].price
              /\ order_items'[j].quantity = order_items[j].quantity
        /\ Len(orders') >= Len(orders)
        /\ \A o \in DOMAIN orders :
              /\ orders'[o].id = orders[o].id
              /\ orders'[o].total_amount = orders[o].total_amount
      ]_vars

\* a product was ordered again through the cart after its price had changed:
\* the item of the earlier order keeps the earlier price
C20_Witness ==
    /\ resp.op = "checkout"
    /\ resp.status = 200
    /\ Len(order_items) = 2
    /\ order_items[1].product_id = order_items[2].product_id
    /\ order_items[1].order_id # order_items[2].order_id
    /\ order_items[1].price # order_items[2].price
    /\ orders[1].total_amount # orders[2].total_amount
\* the units of a product that the stored order items account for
Sold(product_id) ==
    LET own == {j \in DOMAIN order_items :
                   order_items[j].product_id = product_id}
    IN  SetSum(own, [j \in own |-> order_items[j].quantity])

\* the products a finished order request has ordered
Ordered(c) ==
    IF calls[c].op = "create_order"
    THEN {calls[c].items[i].product_id : i \in DOMAIN calls[c].items}
    ELSE IF calls[c].op = "checkout"
    THEN {calls[c].lines[i].product_id : i \in DOMAIN calls[c].lines}
    ELSE {}

\* C21: once the order requests (create_order, checkout) that were served
\* one after the other, none in flight together with another, are all
\* answered, every product's quantity is its initial quantity less the
\* quantities of the order items that reference it.
C21_SequentialDecrementsAddUp ==
    (/\ Quiet
     /\ \A c \in DOMAIN calls :
           calls[c].pc = "done" => ~calls[c].overlapped) =>
        \A p \in DOMAIN products :
            products[p].quantity =
                SeedProducts[p].quantity - Sold(products[p].id)

\* two order requests for one product were in flight together and both
\* were answered 200: the product's quantity is higher than the initial
\* quantity less the two ordered quantities, one decrement is lost
C21_Witness ==
    /\ Quiet
    /\ \E c, d \in DOMAIN calls :
          /\ c # d
          /\ calls[c].pc = "done" /\ calls[c].status = 200
          /\ calls[d].pc = "done" /\ calls[d].status = 200
          /\ calls[c].op = "create_order"
          /\ calls[d].op = "checkout"
          /\ \E p \in DOMAIN products :
                /\ products[p].id \in Ordered(c) \cap Ordered(d)
                /\ Sold(products[p].id) > 0
                /\ products[p].quantity >
                      SeedProducts[p].quantity - Sold(products[p].id)
\* the step in which the checkout in slot c, with at least one order
\* inserted, is answered 500
FailsAfterInsert(c) ==
    /\ InFlight(c)
    /\ calls[c].op = "checkout"
    /\ Len(calls[c].inserted) >= 1
    /\ calls'[c].pc = "done"
    /\ calls'[c].status = 500

\* nothing is compensated: the response is a 500, no table changes, the
\* orders the request inserted are stored and the cart has the total it had
KeepsPartialState(c) ==
    /\ resp'.op = "checkout"
    /\ resp'.status = 500
    /\ UNCHANGED tables
    /\ \A k \in DOMAIN calls[c].inserted :
          \E o \in DOMAIN orders' : orders'[o] = calls[c].inserted[k]
    /\ \A r \in DOMAIN carts' :
          carts'[r].id = calls[c].cart.id =>
              carts'[r].total = calls[c].cart.total

\* the cart lines are deleted by a checkout that has inserted every one of
\* its per-farmer orders with its items, and by no other step
DeletesAfterAllOrders ==
    cart_items' # cart_items =>
        \E c \in DOMAIN calls :
            /\ InFlight(c)
            /\ calls[c].op = "checkout"
            /\ calls[c].pc = "clear"
            /\ Len(calls[c].inserted) = Len(calls[c].farmer_orders)
            /\ \A k \in DOMAIN calls[c].inserted :
                  Len(SelectEq(order_items, "order_id",
                               calls[c].inserted[k].id))
                      = Len(calls[c].farmer_orders[k].items)

\* C22 as amended: a checkout whose store call fails after at least one
\* per-farmer order was inserted is answered 500 and nothing is undone; the
\* cart keeps its previous total, and it holds all its lines unless the call
\* that fails is the final update of the cart total, which comes after the
\* lines were deleted; the lines are deleted only after every per-farmer
\* order has been created.
C22_NoCompensation ==
    [][/\ \A c \in DOMAIN calls :
             FailsAfterInsert(c) =>
                 /\ KeepsPartialState(c)
                 /\ SelectEq(cart_items', "cart_id", calls[c].cart.id) =
                        (IF calls[c].pc = "total" THEN <<>>
                         ELSE calls[c].lines)
       /\ DeletesAfterAllOrders
      ]_vars

\* the insert of the second farmer's order failed: the first order and its
\* decrement are kept, and the cart holds its two lines
C22_Witness ==
    /\ resp.op = "checkout"
    /\ resp.status = 500
    /\ \E c \in DOMAIN calls :
          /\ calls[c].pc = "done"
          /\ calls[c].status = 500
          /\ calls[c].at = "order"
          /\ Len(calls[c].inserted) = 1
          /\ Len(orders) = 1
          /\ Len(order_items) = 1
          /\ products[1].quantity < SeedProducts[1].quantity
          /\ SelectEq(cart_items, "cart_id", calls[c].cart.id) = calls[c].lines
          /\ Len(calls[c].lines) = 2

\* C22 as stated: after any such failure the cart still holds all its lines.
C22_CartKeepsLinesOnFailure ==
    [][\A c \in DOMAIN calls :
          FailsAfterInsert(c) =>
              /\ KeepsPartialState(c)
              /\ SelectEq(cart_items', "cart_id", calls[c].cart.id) =
                     calls[c].lines
      ]_vars
\* C23: once the cart requests that were served one after the other, none
\* in flight together with another, are all answered, the stored total of
\* every cart is the sum of price x quantity over its stored lines.
C23_SequentialCartTotalIsLineSum ==
    (/\ Quiet
     /\ \A c \in DOMAIN calls :
           calls[c].pc = "done" => ~calls[c].overlapped) =>
        \A r \in DOMAIN carts :
            carts[r].total = LinesValue(cart_items, carts[r].id)

\* an add_to_cart and a remove_from_cart of one user on one cart were in
\* flight together and both were answered 200: the stored total is not the
\* sum over the stored lines
C23_Witness ==
    /\ Quiet
    /\ \E c, d \in DOMAIN calls :
          /\ c # d
          /\ calls[c].pc = "done" /\ calls[c].status = 200
          /\ calls[d].pc = "done" /\ calls[d].status = 200
          /\ calls[c].op = "add_to_cart"
          /\ calls[d].op = "remove_from_cart"
          /\ calls[c].user_id = calls[d].user_id
          /\ calls[c].cart_id = calls[d].cart_id
          /\ \E r \in DOMAIN carts :
                /\ carts[r].id = calls[c].cart_id
                /\ carts[r].total # LinesValue(cart_items, carts[r].id)
\* a users row with the email, or with the username, is stored
Duplicates(email, username) ==
    \E u \in DOMAIN users :
        users[u].email = email \/ users[u].username = username

\* C24: a register request passes its lookups only when no row with its
\* email, then none with its username, is stored at the time of the lookup;
\* once past them it inserts its row and is answered 200 with a token,
\* whatever rows were inserted since, unless the store rejects the insert of
\* a duplicate, which is answered 500 and inserts nothing.
C24_RegisterChecksThenInserts ==
    [][\A c \in DOMAIN calls :
          /\ (calls[c] = Idle /\ calls'[c] # Idle) =>
                 \A u \in DOMAIN users : users[u].email # calls'[c].email
          /\ (At(c, "register", "username") /\ calls'[c].pc = "insert") =>
                 \A u \in DOMAIN users :
                     users[u].username # calls[c].username
          /\ (At(c, "register", "insert") /\ calls'[c].pc = "done") =>
                 \/ /\ calls'[c].status = 200
                    /\ resp'.status = 200
                    /\ resp'.body.token \in tokens'
                    /\ Len(users') = Len(users) + 1
                    /\ SubSeq(users', 1, Len(users)) = users
                    /\ users'[Len(users')].email = calls[c].email
                    /\ users'[Len(users')].username = calls[c].username
                 \/ /\ calls'[c].status = 500
                    /\ resp'.status = 500
                    /\ Duplicates(calls[c].email, calls[c].username)
                    /\ users' = users
      ]_vars

\* two register requests with one email were in flight together, both
\* lookups before either insert: both were answered 200 and two users rows
\* have the email
C24_Witness ==
    /\ Quiet
    /\ Len(users) = 2
    /\ users[1].email = users[2].email
    /\ users[1].username # users[2].username
    /\ \A c \in DOMAIN calls :
          /\ calls[c].pc = "done"
          /\ calls[c].op = "register"
          /\ calls[c].status = 200
          /\ calls[c].overlapped
\* the checkout in slot c has inserted an order for the lines it read
Converts(c) ==
    /\ calls[c].pc # "idle"
    /\ calls[c].op = "checkout"
    /\ Len(calls[c].inserted) >= 1

\* C25: no cart line is converted into order items by two checkout
\* requests: two checkouts that have both created orders did so from
\* disjoint sets of lines.
C25_LinesConvertedOnce ==
    \A c, d \in DOMAIN calls :
        (c # d /\ Converts(c) /\ Converts(d)) =>
            Elems(calls[c].lines) \cap Elems(calls[d].lines) = {}
====
